---- MODULE Spec2Model ----
(***************************************************************************)
(* FileArco v1 archives (src/src/v1.rs, src/src/file_data.rs):             *)
(* the writer FileArco::make, the reader FileArco::new, the lookup         *)
(* FileArco::get and the views (FileRef) that share the memory mapping,    *)
(* and the command-line program that calls make (src/src/bin/filearco.rs). *)
(*                                                                         *)
(* An archive is modelled byte by byte, as the sequence of bytes that make *)
(* writes and that new maps.  bincode's encoding is modelled by what it    *)
(* writes: a u64 is 8 bytes, a String is its u64 length followed by its    *)
(* bytes, a map is its u64 count followed by its (key, value) pairs in the *)
(* map's iteration order, a struct is its fields in order.                 *)
(*                                                                         *)
(* Numbers: every size of the model is far below 2^24.  A u64 read from a  *)
(* file whose value is 2^24 or more is read as U64Big ("too large for any  *)
(* size of the model"), which is exact for every comparison the code makes *)
(* with a size or a checksum of the model.                                 *)
(***************************************************************************)
EXTENDS Integers, Sequences, FiniteSets, TLC

(***************************************************************************)
(* Bounds of the model.                                                    *)
(***************************************************************************)
\* Longest file list (FileData) handed to make.
MaxFiles == 2
\* Most views (FileRef) alive at the same time.
MaxViews == 2
\* Width in bits of the machine words on which get_aligned_length is checked
\* by itself (u64 in the source: 64 bits).
WordBits == 8

(***************************************************************************)
(* Platform and format constants.                                          *)
(***************************************************************************)
\* page_size::get(): a power of two fixed by the platform.  The model runs
\* on a platform with 128-byte pages so that whole archives stay small.
PageSize == 128
\* const VERSION_NUMBER: u64 = 1
VERSION_NUMBER == 1
\* mem::size_of::<u64>()
checksum_size == 8
\* const FILEARCO_ID = b"FILEARCO"
FILEARCO_ID == <<70, 73, 76, 69, 65, 82, 67, 79>>
\* Saturation value of a decoded u64 (see the note on numbers above): 2^24.
U64Big == 256 * 65536
\* Modulus of the stand-in checksum: 65521, the largest prime below 2^16.
ChecksumModulus == 65536 - 15

Byte == 0..255

(***************************************************************************)
(* Sequences of bytes.                                                     *)
(***************************************************************************)
\* The slice [from, from + len) of s, positions counted from 0 as in Rust.
Slice(s, from, len) == SubSeq(s, from + 1, from + len)

Zeros(n) == [i \in 1..n |-> 0]

\* The sum of i * s[i] for i in lo..hi, by halving the range.
RECURSIVE WeightedSum(_, _, _)
WeightedSum(s, lo, hi) ==
    IF lo > hi THEN 0
    ELSE IF lo = hi THEN lo * s[lo]
    ELSE LET mid == (lo + hi) \div 2
         IN  WeightedSum(s, lo, mid) + WeightedSum(s, mid + 1, hi)

\* crc::crc64::checksum_iso, an external function.  The CRC itself is not
\* computed; what the program relies on is kept: the result is a function of
\* the bytes alone and it changes whenever a single byte changes (i * d is
\* never 0 modulo a prime above i and d).
checksum(bytes) ==
    (Len(bytes) + 1 + WeightedSum(bytes, 1, Len(bytes))) % ChecksumModulus

(***************************************************************************)
(* bincode: serialize / deserialize.                                       *)
(***************************************************************************)
\* A u64 (below 2^31 in the model) as 8 little-endian bytes.
serialize_u64(v) ==
    << v % 256, (v \div 256) % 256, (v \div 65536) % 256,
       (v \div 16777216) % 256, 0, 0, 0, 0 >>

\* The u64 held by 8 bytes, saturated at U64Big.
deserialize_u64(b) ==
    IF \E i \in 4..8 : b[i] # 0
    THEN U64Big
    ELSE b[1] + 256 * b[2] + 65536 * b[3]

\* str::from_utf8 on the bytes of a key succeeds (std's UTF-8 validation):
\* every byte that is not a continuation byte (128..191) starts a well-formed
\* character, and every continuation byte belongs to the character started
\* by the nearest byte before it that is not one.
from_utf8_ok(s) ==
    LET IsCont(j) == s[j] >= 128 /\ s[j] <= 191
        Width(c) == IF c < 128 THEN 1
                    ELSE IF c >= 194 /\ c <= 223 THEN 2
                    ELSE IF c >= 224 /\ c <= 239 THEN 3
                    ELSE IF c >= 240 /\ c <= 244 THEN 4
                    ELSE 0
        Second(c, b) == /\ b >= (IF c = 224 THEN 160 ELSE IF c = 240 THEN 144 ELSE 128)
                        /\ b <= (IF c = 237 THEN 159 ELSE IF c = 244 THEN 143 ELSE 191)
        WellFormed(i) ==
            /\ Width(s[i]) > 0
            /\ i + Width(s[i]) - 1 <= Len(s)
            /\ \A j \in (i + 1)..(i + Width(s[i]) - 1) : IsCont(j)
            /\ Width(s[i]) > 1 => Second(s[i], s[i + 1])
    IN  \A i \in 1..Len(s) :
            IF IsCont(i)
            THEN \E k \in 1..3 :
                    /\ i - k >= 1
                    /\ ~IsCont(i - k)
                    /\ \A m \in (i - k + 1)..(i - 1) : IsCont(m)
                    /\ Width(s[i - k]) > k
            ELSE WellFormed(i)

\* struct Entry { offset, length, aligned_length, checksum }
serialize_Entry(e) ==
    serialize_u64(e.offset) \o serialize_u64(e.length)
        \o serialize_u64(e.aligned_length) \o serialize_u64(e.checksum)

\* struct Header, 7 fields, 56 bytes.
serialize_Header(h) ==
    h.id \o serialize_u64(h.version_number) \o serialize_u64(h.file_length)
        \o serialize_u64(h.file_offset) \o serialize_u64(h.page_size)
        \o serialize_u64(h.entries_length) \o serialize_u64(h.entries_checksum)

\* Deserializing 56 bytes into a Header never fails: every field has a fixed
\* width and accepts every bit pattern.
deserialize_Header(sl) ==
    [ id               |-> Slice(sl, 0, 8),
      version_number   |-> deserialize_u64(Slice(sl, 8, 8)),
      file_length      |-> deserialize_u64(Slice(sl, 16, 8)),
      file_offset      |-> deserialize_u64(Slice(sl, 24, 8)),
      page_size        |-> deserialize_u64(Slice(sl, 32, 8)),
      entries_length   |-> deserialize_u64(Slice(sl, 40, 8)),
      entries_checksum |-> deserialize_u64(Slice(sl, 48, 8)) ]

\* struct Entries { files: HashMap<String, Entry> }: the count, then the
\* pairs in the order in which the map iterates (keys).
RECURSIVE serialize_pairs(_, _, _)
serialize_pairs(files, keys, i) ==
    IF i > Len(keys) THEN << >>
    ELSE serialize_u64(Len(keys[i])) \o keys[i] \o serialize_Entry(files[keys[i]])
             \o serialize_pairs(files, keys, i + 1)

serialize_Entries(files, keys) ==
    serialize_u64(Len(keys)) \o serialize_pairs(files, keys, 1)

\* Deserializing the pairs of a map from the bytes of sl at position pos
\* (n pairs left).  It fails (Err) when the bytes run out or a key is not
\* UTF-8; bytes left over after the last pair are not an error.  A key read
\* twice replaces the earlier pair, as HashMap::insert does.
RECURSIVE deserialize_pairs(_, _, _, _)
deserialize_pairs(sl, pos, n, files) ==
    IF n = 0 THEN [ok |-> TRUE, files |-> files]
    ELSE IF pos + 8 > Len(sl) THEN [ok |-> FALSE]
    ELSE
      LET klen == deserialize_u64(Slice(sl, pos, 8))
          vpos == pos + 8 + klen
      IN  IF vpos + 32 > Len(sl) THEN [ok |-> FALSE]
          ELSE
            LET key == Slice(sl, pos + 8, klen)
                entry == [ offset         |-> deserialize_u64(Slice(sl, vpos, 8)),
                           length         |-> deserialize_u64(Slice(sl, vpos + 8, 8)),
                           aligned_length |-> deserialize_u64(Slice(sl, vpos + 16, 8)),
                           checksum       |-> deserialize_u64(Slice(sl, vpos + 24, 8)) ]
            IN  IF ~from_utf8_ok(key) THEN [ok |-> FALSE]
                ELSE deserialize_pairs(sl, vpos + 32, n - 1,
                         [k \in DOMAIN files \cup {key} |->
                              IF k = key THEN entry ELSE files[k]])

deserialize_Entries(sl) ==
    IF Len(sl) < 8 THEN [ok |-> FALSE]
    ELSE deserialize_pairs(sl, 8, deserialize_u64(Slice(sl, 0, 8)),
                           [k \in {} |-> 0])

(***************************************************************************)
(* The source directory and the file lists handed to make.                 *)
(***************************************************************************)
\* "a.txt", "b.txt" and "dir/sub/file0.txt".  The third path is 17 bytes
\* long: with it alone the serialized table is 65 bytes long.
NameA == <<97, 46, 116, 120, 116>>
NameB == <<98, 46, 116, 120, 116>>
NameLong == <<100, 105, 114, 47, 115, 117, 98, 47,
              102, 105, 108, 101, 48, 46, 116, 120, 116>>
Names == {NameA, NameB, NameLong}

\* The contents of the files under base_path when make reads them:
\* "abc", the empty file, and two bytes that are not text.
Disk(name) ==
    IF name = NameA THEN <<97, 98, 99>>
    ELSE IF name = NameB THEN << >>
    ELSE <<0, 255>>

\* What file_data::get pushes for a file: its name, its length and the
\* checksum of its contents.
FileDatum(name, contents) ==
    [name |-> name, length |-> Len(contents), checksum |-> checksum(contents)]

\* The FileDatum values a file list may hold: the ones file_data::get builds
\* for the files of Disk, and one for a.txt taken when the file was still
\* empty (a list built earlier, or by FileData::new).
Datums ==
    {FileDatum(n, Disk(n)) : n \in Names} \cup {FileDatum(NameA, << >>)}

\* The lists of at most n values of S.
RECURSIVE SeqsUpTo(_, _)
SeqsUpTo(S, n) ==
    IF n = 0 THEN {<< >>}
    ELSE LET shorter == SeqsUpTo(S, n - 1)
         IN  shorter \cup {Append(s, x) : s \in {t \in shorter : Len(t) = n - 1}, x \in S}

\* The orders in which a HashMap holding the keys S may iterate them: std's
\* HashMap is seeded at random (RandomState), so every order is possible.
IterationOrders(S) ==
    {s \in SeqsUpTo(S, Cardinality(S)) :
        Len(s) = Cardinality(S) /\ \A i, j \in 1..Len(s) : i # j => s[i] # s[j]}

(***************************************************************************)
(* The writer.                                                             *)
(***************************************************************************)
\* fn get_aligned_length: (length + (page_size-1)) & !(page_size-1).  With
\* page_size a power of two the mask clears the remainder modulo page_size.
get_aligned_length(length) ==
    LET sum == length + (PageSize - 1)
    IN  sum - (sum % PageSize)

\* Machine words of WordBits bits: the values, and the operators ! and & of
\* the source, bit by bit.
Word == 2 ^ WordBits
BitNot(x) == Word - 1 - x
RECURSIVE BitAnd(_, _, _)
BitAnd(x, y, bits) ==
    IF bits = 0 THEN 0
    ELSE (x % 2) * (y % 2) + 2 * BitAnd(x \div 2, y \div 2, bits - 1)

\* The page sizes a platform may have: the powers of two of a word.
PageSizes == {2 ^ k : k \in 0..(WordBits - 1)}

\* A rounding that drops the remainder instead of rounding up.
get_aligned_length_down(length, page_size) ==
    {[panic |-> FALSE, value |-> BitAnd(length, BitNot(page_size - 1), WordBits)]}

\* fn get_aligned_length on machine words, for the page size page_size of
\* the platform: (length + (page_size - 1)) & !(page_size - 1).  The set of
\* its outcomes: when the addition overflows the word, a build with
\* overflow checks panics and a build without them wraps around.
get_aligned_length_word(length, page_size) ==
    LET sum == length + (page_size - 1)
        masked(v) == BitAnd(v, BitNot(page_size - 1), WordBits)
    IN  IF sum >= Word
        THEN {[panic |-> TRUE, value |-> 0],
              [panic |-> FALSE, value |-> masked(sum % Word)]}
        ELSE {[panic |-> FALSE, value |-> masked(sum)]}

\* The sum of aligned_length over the first i keys.
RECURSIVE aligned_before(_, _, _)
aligned_before(files, keys, i) ==
    IF i = 0 THEN 0
    ELSE aligned_before(files, keys, i - 1) + files[keys[i]].aligned_length

\* A builder that records each file's exact length as its aligned_length.
Entries_new_unaligned(file_data, keys) ==
    LET last(k) == CHOOSE i \in 1..Len(file_data) :
                      /\ file_data[i].name = k
                      /\ \A j \in (i + 1)..Len(file_data) : file_data[j].name # k
        inserted == [k \in {file_data[i].name : i \in 1..Len(file_data)} |->
                        [ offset         |-> 0,
                          length         |-> file_data[last(k)].length,
                          aligned_length |-> file_data[last(k)].length,
                          checksum       |-> file_data[last(k)].checksum ]]
        index(k) == CHOOSE i \in 1..Len(keys) : keys[i] = k
    IN  [k \in DOMAIN inserted |->
            [inserted[k] EXCEPT !.offset = aligned_before(inserted, keys, index(k) - 1)]]

\* Entries::new.  The insert loop keeps, for each name, the datum inserted
\* last; the second loop walks files.keys() (the order keys) and gives every
\* entry the running total of the aligned lengths before it.
Entries_new(file_data, keys) ==
    LET last(k) == CHOOSE i \in 1..Len(file_data) :
                      /\ file_data[i].name = k
                      /\ \A j \in (i + 1)..Len(file_data) : file_data[j].name # k
        inserted == [k \in {file_data[i].name : i \in 1..Len(file_data)} |->
                        [ offset         |-> 0,
                          length         |-> file_data[last(k)].length,
                          aligned_length |-> get_aligned_length(file_data[last(k)].length),
                          checksum       |-> file_data[last(k)].checksum ]]
        index(k) == CHOOSE i \in 1..Len(keys) : keys[i] = k
    IN  [k \in DOMAIN inserted |->
            [inserted[k] EXCEPT !.offset = aligned_before(inserted, keys, index(k) - 1)]]

\* Entries::total_aligned_length
total_aligned_length(files, keys) == aligned_before(files, keys, Len(keys))

\* Header::new
Header_new(page_size, entries_length, file_contents_length, entries_checksum) ==
    LET test_header == [ id |-> FILEARCO_ID, version_number |-> VERSION_NUMBER,
                         file_length |-> 0, file_offset |-> 0,
                         page_size |-> page_size,
                         entries_length |-> entries_length,
                         entries_checksum |-> entries_checksum ]
        header_length == Len(serialize_Header(test_header))
        file_offset == get_aligned_length(header_length + entries_length)
        file_length == file_offset + file_contents_length
    IN  [test_header EXCEPT !.file_length = file_length, !.file_offset = file_offset]

\* The loop of make over &entries.files: each file's contents as read from
\* the disk, then aligned_length - length zero bytes.
RECURSIVE write_files(_, _, _)
write_files(files, keys, i) ==
    IF i > Len(keys) THEN << >>
    ELSE Disk(keys[i])
           \o Zeros(files[keys[i]].aligned_length - files[keys[i]].length)
           \o write_files(files, keys, i + 1)

\* FileArco::make with keys the iteration order of the table's map: the
\* result and the bytes written to out_file.  The subtraction that computes
\* padding_length is on usize: a negative difference panics (overflow check)
\* or wraps to a length no allocation can satisfy; make does not return.
FileArco_make(file_data, keys) ==
    LET files == Entries_new(file_data, keys)
        entries_encoded == serialize_Entries(files, keys)
        header == Header_new(PageSize, Len(entries_encoded),
                             total_aligned_length(files, keys),
                             checksum(entries_encoded))
        header_encoded == serialize_Header(header)
        header_checksum_encoded == serialize_u64(checksum(header_encoded))
        start == header_encoded \o header_checksum_encoded \o entries_encoded
        start_length == Len(header_encoded) + Len(header_checksum_encoded)
                            + Len(entries_encoded)
        padding_length == header.file_offset - start_length
    IN  IF padding_length < 0
        THEN [result |-> "Panic", out |-> start]
        ELSE [result |-> "Ok",
              out |-> start \o Zeros(padding_length) \o write_files(files, keys, 1)]

\* FileArco::make when one of its I/O operations fails: the operator ? returns
\* the error at once, and out_file holds what was written before.  A failing
\* write_all has written less than its buffer (an empty buffer never fails),
\* so the bytes left are any strict prefix of what make writes; a failing
\* File::open or read_to_end of the i-th file leaves everything written
\* before that file's contents.
FileArco_make_failed(file_data, keys) ==
    LET r == FileArco_make(file_data, keys)
        files == Entries_new(file_data, keys)
        read_at(i) == Len(r.out) - Len(write_files(files, keys, i))
        lengths == (0..(Len(r.out) - 1))
                      \cup (IF r.result = "Ok"
                            THEN {read_at(i) : i \in 1..Len(keys)}
                            ELSE {})
    IN  {[result |-> "Io", out |-> SubSeq(r.out, 1, n)] : n \in lengths}

(***************************************************************************)
(* The reader.                                                             *)
(***************************************************************************)
NoEntries == [k \in {} |-> 0]
NoInner == [file_offset |-> 0, page_size |-> 0, entries |-> NoEntries]

\* A reader that compares the mapped size with file_offset, the start of the
\* contents, instead of file_length.
FileTruncated_check_offset(map_len, header) == map_len < header.file_offset

\* The check of new that the file holds as many bytes as the header says:
\* (map.len() as u64) < header.file_length.
FileTruncated_check(map_len, header) == map_len < header.file_length

\* FileArco::new on a file holding the bytes map: the set of its possible
\* outcomes.  An outcome is Ok with the fields of Inner, one of the errors,
\* "Panic" (an unwrap of Err) or "Crash" (a fault).  There is one outcome
\* unless the table slice reaches past the end of the mapping: reading it is
\* undefined behaviour of slice::from_raw_parts, and then the process may
\* fault, or the read may go through and see the zero bytes that follow the
\* file in its last page (a read that goes more than a page past the end of
\* the file leaves the pages of the mapping and faults).
FileArco_new(map) ==
    LET Err(e) == [result |-> e, inner |-> NoInner]
        test_header_encoded == serialize_Header(Header_new(PageSize, 0, 0, 0))
        header_len == Len(test_header_encoded)
    IN  \* Mmap::open_path refuses an empty file.
        IF Len(map) = 0 THEN {Err("Io")}
        ELSE IF Len(map) < header_len + checksum_size THEN {Err("FileTooSmall")}
        ELSE
          LET sl == Slice(map, 0, header_len)
              header == deserialize_Header(sl)
              checksum1 == checksum(sl)
              header_checksum == deserialize_u64(Slice(map, header_len, checksum_size))
          IN  IF header.id # FILEARCO_ID THEN {Err("NotArchive")}
              ELSE IF header.version_number # 1 THEN {Err("NotV1Archive")}
              ELSE IF checksum1 # header_checksum THEN {Err("CorruptedHeader")}
              ELSE IF FileTruncated_check(Len(map), header) THEN {Err("FileTruncated")}
              ELSE
                LET offset == checksum_size + header_len
                    missing == offset + header.entries_length - Len(map)
                    readable == IF missing > 0 THEN map \o Zeros(missing) ELSE map
                    sl2 == Slice(readable, offset, header.entries_length)
                    entries == deserialize_Entries(sl2)
                    checksum2 == checksum(sl2)
                    read == IF ~entries.ok THEN Err("Panic")
                            ELSE IF checksum2 # header.entries_checksum
                                 THEN Err("CorruptedEntriesTable")
                            ELSE [result |-> "Ok",
                                  inner |-> [file_offset |-> header.file_offset,
                                             page_size |-> header.page_size,
                                             entries |-> entries.files]]
                IN  IF missing <= 0 THEN {read}
                    ELSE IF missing > PageSize THEN {Err("Crash")}
                    ELSE {Err("Crash"), read}

\* A lookup that ignores the first byte of the path: it returns the view of
\* a key that agrees with file_path from the second byte on.
FileArco_get_loose(inner, file_path) ==
    LET matches == {k \in DOMAIN inner.entries :
                       /\ Len(k) = Len(file_path)
                       /\ \A j \in 2..Len(k) : k[j] = file_path[j]}
    IN  IF matches # {}
        THEN LET entry == inner.entries[CHOOSE k \in matches : TRUE]
             IN  [some |-> TRUE,
                  ref |-> [address |-> inner.file_offset + entry.offset,
                           length |-> entry.length,
                           aligned_length |-> entry.aligned_length,
                           checksum |-> entry.checksum]]
        ELSE [some |-> FALSE]

\* FileArco::get: None, or Some(FileRef).  address is the distance of the
\* view's first byte from map.ptr().
FileArco_get(inner, file_path) ==
    IF file_path \in DOMAIN inner.entries
    THEN LET entry == inner.entries[file_path]
         IN  [some |-> TRUE,
              ref |-> [address |-> inner.file_offset + entry.offset,
                       length |-> entry.length,
                       aligned_length |-> entry.aligned_length,
                       checksum |-> entry.checksum]]
    ELSE [some |-> FALSE]

\* A lookup that takes the entry out of the table, as HashMap::remove would.
FileArco_get_self_taking(inner, file_path) ==
    [inner EXCEPT !.entries =
        [k \in DOMAIN inner.entries \ {file_path} |-> inner.entries[k]]]

\* What get leaves of the Inner it was called on: get takes &self, Inner is
\* behind an Arc and none of its fields has interior mutability.
FileArco_get_self(inner, file_path) == inner

\* FileArco::page_size
FileArco_page_size(inner) == inner.page_size

\* The view's bytes (length bytes from address) lie inside the mapping.
InsideMapping(map, ref) == ref.address + ref.length <= Len(map)

\* A view that hands out its whole aligned region, padding included.
FileRef_as_slice_aligned(map, ref) == Slice(map, ref.address, ref.aligned_length)

\* FileRef::as_slice, for a view inside the mapping.
FileRef_as_slice(map, ref) == Slice(map, ref.address, ref.length)

\* A validity check that sums the whole aligned region, padding included.
FileRef_is_valid_aligned(map, ref) ==
    ref.checksum = checksum(Slice(map, ref.address, ref.aligned_length))

\* FileRef::is_valid, for a view inside the mapping.
FileRef_is_valid(map, ref) == ref.checksum = checksum(FileRef_as_slice(map, ref))

\* FileRef::len
FileRef_len(ref) == ref.length

\* FileRef::as_str, for a view inside the mapping: Ok with the bytes as a
\* str, or the error of str::from_utf8.
FileRef_as_str(map, ref) ==
    LET sl == Slice(map, ref.address, ref.length)
    IN  IF from_utf8_ok(sl) THEN [ok |-> TRUE, bytes |-> sl]
        ELSE [ok |-> FALSE, bytes |-> << >>]

\* FileRef::as_raw: the address and the aligned length.
FileRef_as_raw(ref) == << ref.address, ref.aligned_length >>

(***************************************************************************)
(* Shared ownership of Inner (Arc<Inner>).                                 *)
(***************************************************************************)
\* A get that hands out a view without taking a reference of its own.
Arc_clone_missing(count) == count

\* self.inner.clone() in get: one more strong reference.
Arc_clone(count) == count + 1

\* Dropping a holder of the Arc (the FileArco or a FileRef): one strong
\* reference less.  At zero Inner is dropped, and its Mmap unmaps the file.
Arc_drop(count) == count - 1

(***************************************************************************)
(* The file at the archive's path, and what may be done to it between make *)
(* and new.                                                                *)
(***************************************************************************)
\* Each byte changed is changed by one of these amounts (modulo 256).
CorruptDeltas == {1, 255}

\* The paths asked of get: the three names and "c.txt", which no list holds.
NameC == <<99, 46, 116, 120, 116>>
RequestPaths == Names \cup {NameC}

\* The part of an archive written by make in which position pos lies
\* ("beyond": past the file_length its header states).
Region(bytes, pos) ==
    LET header_len == Len(serialize_Header(Header_new(PageSize, 0, 0, 0)))
        header == deserialize_Header(Slice(bytes, 0, header_len))
    IN  IF pos < header_len THEN "header"
        ELSE IF pos < header_len + checksum_size THEN "header_checksum"
        ELSE IF pos < header_len + checksum_size + header.entries_length THEN "table"
        ELSE IF pos < header.file_offset THEN "padding"
        ELSE IF pos < header.file_length THEN "content"
        ELSE "beyond"

\* bytes with the byte at pos changed by d.
ChangeByte(bytes, pos, d) == [bytes EXCEPT ![pos + 1] = (@ + d) % 256]

\* bytes with entries_checksum and the header checksum computed again from
\* the table and header bytes now in it: what anyone who edits an archive
\* can do, the checksums being unkeyed.
Rechecksum(bytes) ==
    LET header_len == Len(serialize_Header(Header_new(PageSize, 0, 0, 0)))
        header == deserialize_Header(Slice(bytes, 0, header_len))
        table == Slice(bytes, header_len + checksum_size, header.entries_length)
        header_encoded ==
            serialize_Header([header EXCEPT !.entries_checksum = checksum(table)])
    IN  header_encoded \o serialize_u64(checksum(header_encoded))
            \o SubSeq(bytes, header_len + checksum_size + 1, Len(bytes))

\* bytes with the header checksum computed again from the header bytes now
\* in it.
RechecksumHeader(bytes) ==
    LET header_len == Len(serialize_Header(Header_new(PageSize, 0, 0, 0)))
    IN  Slice(bytes, 0, header_len)
            \o serialize_u64(checksum(Slice(bytes, 0, header_len)))
            \o SubSeq(bytes, header_len + checksum_size + 1, Len(bytes))

NoTamper == [kind |-> "none", region |-> "none", pos |-> 0]

(***************************************************************************)
(* State.                                                                  *)
(***************************************************************************)
VARIABLES
    file_data,    \* the FileData handed to make: a list of FileDatum
    make_result,  \* "None" before make has run, then "Ok", "Io" or "Panic"
    archive,      \* the bytes of the file make wrote to (out_file)
    tamper,       \* what was done to that file after make (bookkeeping)
    new_result,   \* "None" before new has run, then its result
    inner,        \* Inner: file_offset, page_size, entries (map: see mapped)
    handle,       \* the FileArco returned by new is alive
    views,        \* the FileRefs alive, each with the path it was asked for
                  \* and what is_valid returned for it ("unchecked" before)
    strong,       \* the strong count of the Arc<Inner>
    mapped,       \* the Mmap held by Inner has not been dropped
    last_get,     \* the last call of get: its path and whether it gave Some
    made_entries, \* entries of make: the table it built (files) and the order
                  \* in which its map iterates (keys)
    advice,       \* the page-advisory calls the library has issued, in order
    cli,          \* the run of the command-line program (bin/filearco.rs)
    last_read,    \* the last read-only call on the archive or on a view: the
                  \* method, the path of the view and what it returned
    aligned       \* a call of get_aligned_length on machine words: length,
                  \* page size, and once called whether it panicked or the
                  \* value it returned

vars == << file_data, make_result, archive, tamper, new_result, inner,
           handle, views, strong, mapped, last_get, made_entries, advice, cli,
           last_read, aligned >>

NoGet == [path |-> << >>, some |-> FALSE]
NoMade == [files |-> NoEntries, keys |-> << >>]
NoRead == [method |-> "none", path |-> << >>, result |-> "none"]
NoAligned == [length |-> 0, page_size |-> PageSize, called |-> FALSE,
              panic |-> FALSE, value |-> 0]
\* main has not started: no step taken, nothing enumerated or created.
NoRun == [pc |-> "start", failed |-> "none", status |-> 0,
          enumerated |-> FALSE, created |-> FALSE]

Init ==
    /\ file_data \in SeqsUpTo(Datums, MaxFiles)
    /\ make_result = "None"
    /\ archive = << >>
    /\ tamper = NoTamper
    /\ new_result = "None"
    /\ inner = NoInner
    /\ handle = FALSE
    /\ views = << >>
    /\ strong = 0
    /\ mapped = FALSE
    /\ last_get = NoGet
    /\ made_entries = NoMade
    /\ advice = << >>
    /\ cli = NoRun
    /\ last_read = NoRead
    /\ aligned = NoAligned

(***************************************************************************)
(* Actions.                                                                *)
(***************************************************************************)
\* FileArco::make(file_data, out_file); the table's map iterates in some
\* order keys, and every read and write either succeeds or fails.
Make ==
    /\ make_result = "None"
    /\ \E keys \in IterationOrders({file_data[i].name : i \in 1..Len(file_data)}) :
          \E r \in {FileArco_make(file_data, keys)}
                        \cup FileArco_make_failed(file_data, keys) :
              /\ make_result' = r.result
              /\ archive' = r.out
              /\ made_entries' = [files |-> Entries_new(file_data, keys),
                                  keys |-> keys]
    /\ UNCHANGED << file_data, tamper, new_result, inner, handle, views,
                    strong, mapped, last_get, advice, cli,
                    last_read, aligned >>

Untouched == make_result = "Ok" /\ tamper.kind = "none" /\ new_result = "None"

\* One byte of the archive file is changed.  Where the bytes are decoded
\* (header, header checksum, table) the byte is raised or lowered; in the
\* padding and the contents, which are only copied and summed, it is raised.
CorruptByte ==
    /\ Untouched
    /\ \E pos \in 0..(Len(archive) - 1) :
          \E d \in IF Region(archive, pos) \in {"header", "header_checksum", "table"}
                    THEN CorruptDeltas
                    ELSE {1} :
              /\ archive' = ChangeByte(archive, pos, d)
              /\ tamper' = [kind |-> "byte", region |-> Region(archive, pos), pos |-> pos]
    /\ UNCHANGED << file_data, make_result, new_result, inner, handle, views,
                    strong, mapped, last_get,
                    made_entries, advice, cli,
                    last_read, aligned >>

\* The archive file is cut to a shorter length.
Truncate ==
    /\ Untouched
    /\ \E n \in 0..(Len(archive) - 1) :
          /\ archive' = SubSeq(archive, 1, n)
          /\ tamper' = [kind |-> "truncate", region |-> Region(archive, n), pos |-> n]
    /\ UNCHANGED << file_data, make_result, new_result, inner, handle, views,
                    strong, mapped, last_get,
                    made_entries, advice, cli,
                    last_read, aligned >>

\* One byte of the table is changed and both checksums are computed again.
Forge ==
    /\ Untouched
    /\ \E pos \in 0..(Len(archive) - 1), d \in CorruptDeltas :
          /\ Region(archive, pos) = "table"
          /\ archive' = Rechecksum(ChangeByte(archive, pos, d))
          /\ tamper' = [kind |-> "forge", region |-> "table", pos |-> pos]
    /\ UNCHANGED << file_data, make_result, new_result, inner, handle, views,
                    strong, mapped, last_get,
                    made_entries, advice, cli,
                    last_read, aligned >>

\* One byte of the header is changed and the header checksum is computed
\* again.
ForgeHeader ==
    /\ Untouched
    /\ \E pos \in 0..(Len(archive) - 1), d \in CorruptDeltas :
          /\ Region(archive, pos) = "header"
          /\ archive' = RechecksumHeader(ChangeByte(archive, pos, d))
          /\ tamper' = [kind |-> "forge_header", region |-> "header", pos |-> pos]
    /\ UNCHANGED << file_data, make_result, new_result, inner, handle, views,
                    strong, mapped, last_get, made_entries, advice, cli,
                    last_read, aligned >>

\* FileArco::new(path) on the archive file.
New ==
    /\ make_result # "None"
    /\ new_result = "None"
    /\ \E r \in FileArco_new(archive) :
          /\ new_result' = r.result
          /\ inner' = r.inner
          /\ handle' = (r.result = "Ok")
          /\ strong' = IF r.result = "Ok" THEN 1 ELSE 0
          /\ mapped' = (r.result = "Ok")
    /\ UNCHANGED << file_data, make_result, archive, tamper, views, last_get,
                    made_entries, advice, cli,
                    last_read, aligned >>

\* archive.get(file_path).  get looks the path up and builds the FileRef; it
\* calls no page-advisory function (advice is left as it is), and Inner
\* keeps no should_prefetch flag.
Get ==
    /\ handle
    /\ Len(views) < MaxViews
    /\ \E file_path \in RequestPaths :
          LET r == FileArco_get(inner, file_path)
          IN  /\ last_get' = [path |-> file_path, some |-> r.some]
              /\ views' = IF r.some
                           THEN Append(views, [path |-> file_path, ref |-> r.ref,
                                               valid |-> "unchecked"])
                           ELSE views
              /\ strong' = IF r.some THEN Arc_clone(strong) ELSE strong
              /\ inner' = FileArco_get_self(inner, file_path)
    /\ UNCHANGED << file_data, make_result, archive, tamper, new_result,
                    handle, mapped,
                    made_entries, advice, cli,
                    last_read, aligned >>

\* What is recorded of a call of is_valid that returned b.
Verdict(b) == IF b THEN "valid" ELSE "invalid"

\* view.is_valid() on a view not checked before.  The bytes of a view that
\* reaches past the mapping are not the file's: reading them is undefined
\* behaviour (a fault, or a checksum of whatever memory is there).
IsValid ==
    /\ \E i \in 1..Len(views) :
          /\ views[i].valid = "unchecked"
          /\ \E v \in IF InsideMapping(archive, views[i].ref)
                       THEN {Verdict(FileRef_is_valid(archive, views[i].ref))}
                       ELSE {"Crash", "valid", "invalid"} :
                views' = [views EXCEPT ![i].valid = v]
    /\ UNCHANGED << file_data, make_result, archive, tamper, new_result, inner,
                    handle, strong, mapped, last_get, made_entries, advice, cli,
                    last_read, aligned >>

\* The read-only methods of a view and of the archive.  Each returns a
\* value and assigns nothing.  The bytes of a view that reaches past the
\* mapping are not the file's: reading them is undefined behaviour (a fault,
\* or bytes of whatever memory is there).
Read(method, path, result) ==
    /\ last_read' = [method |-> method, path |-> path, result |-> result]
    /\ UNCHANGED << file_data, make_result, archive, tamper, new_result, inner,
                    handle, views, strong, mapped, last_get, made_entries,
                    advice, cli, aligned >>

\* view.as_slice()
ViewAsSlice ==
    \E i \in 1..Len(views) :
        \E result \in IF InsideMapping(archive, views[i].ref)
                      THEN {FileRef_as_slice(archive, views[i].ref)}
                      ELSE {"Crash", "NotTheFile"} :
            Read("as_slice", views[i].path, result)

\* view.as_str()
ViewAsStr ==
    \E i \in 1..Len(views) :
        \E result \in IF InsideMapping(archive, views[i].ref)
                      THEN {FileRef_as_str(archive, views[i].ref)}
                      ELSE {"Crash", "NotTheFile"} :
            Read("as_str", views[i].path, result)

\* view.as_raw()
ViewAsRaw ==
    \E i \in 1..Len(views) :
        Read("as_raw", views[i].path, FileRef_as_raw(views[i].ref))

\* view.len()
ViewLen ==
    \E i \in 1..Len(views) :
        Read("len", views[i].path, FileRef_len(views[i].ref))

\* archive.page_size()
ArchivePageSize ==
    /\ handle
    /\ Read("page_size", << >>, FileArco_page_size(inner))

\* A FileRef goes out of scope.  FileRef has no Drop implementation: its
\* fields are dropped, of which only the Arc does anything.
DropFileRef ==
    /\ \E i \in 1..Len(views) :
          views' = SubSeq(views, 1, i - 1) \o SubSeq(views, i + 1, Len(views))
    /\ strong' = Arc_drop(strong)
    /\ mapped' = (mapped /\ strong' # 0)
    /\ UNCHANGED << file_data, make_result, archive, tamper, new_result, inner,
                    handle, last_get,
                    made_entries, advice, cli,
                    last_read, aligned >>

\* The FileArco goes out of scope.
DropFileArco ==
    /\ handle
    /\ handle' = FALSE
    /\ strong' = Arc_drop(strong)
    /\ mapped' = (mapped /\ strong' # 0)
    /\ UNCHANGED << file_data, make_result, archive, tamper, new_result, inner,
                    views, last_get,
                    made_entries, advice, cli,
                    last_read, aligned >>

Next ==
    \/ Make
    \/ CorruptByte
    \/ Truncate
    \/ Forge
    \/ ForgeHeader
    \/ New
    \/ Get
    \/ IsValid
    \/ DropFileRef
    \/ DropFileArco

Spec == Init /\ [][Next]_vars

\* The archive file is only ever cut short between make and new.
NextTruncate == Make \/ Truncate \/ New
SpecTruncate == Init /\ [][NextTruncate]_vars

\* The archive file is opened as make wrote it.
NextIntact == Make \/ New \/ Get \/ DropFileRef \/ DropFileArco
SpecIntact == Init /\ [][NextIntact]_vars

\* The archive file is opened as make wrote it and then only read: every
\* method of the archive and of its views, and the drops, in any order.
NextReaders ==
    \/ Make
    \/ New
    \/ Get
    \/ IsValid
    \/ ViewAsSlice
    \/ ViewAsStr
    \/ ViewAsRaw
    \/ ViewLen
    \/ ArchivePageSize
    \/ DropFileRef
    \/ DropFileArco
SpecReaders == Init /\ [][NextReaders]_vars

(***************************************************************************)
(* get_aligned_length by itself, on every length and page size of a word.  *)
(***************************************************************************)
InitAlign ==
    /\ file_data = << >>
    /\ make_result = "None"
    /\ archive = << >>
    /\ tamper = NoTamper
    /\ new_result = "None"
    /\ inner = NoInner
    /\ handle = FALSE
    /\ views = << >>
    /\ strong = 0
    /\ mapped = FALSE
    /\ last_get = NoGet
    /\ made_entries = NoMade
    /\ advice = << >>
    /\ cli = NoRun
    /\ last_read = NoRead
    /\ aligned \in {[NoAligned EXCEPT !.length = n, !.page_size = p] :
                        n \in 0..(Word - 1), p \in PageSizes}

\* get_aligned_length(length) on a platform whose page size is page_size.
GetAlignedLength ==
    /\ ~aligned.called
    /\ \E r \in get_aligned_length_word(aligned.length, aligned.page_size) :
          aligned' = [aligned EXCEPT !.called = TRUE, !.panic = r.panic,
                                     !.value = r.value]
    /\ UNCHANGED << file_data, make_result, archive, tamper, new_result, inner,
                    handle, views, strong, mapped, last_get, made_entries,
                    advice, cli, last_read >>

NextAlign == GetAlignedLength
SpecAlign == InitAlign /\ [][NextAlign]_vars

(***************************************************************************)
(* The command-line program (src/bin/filearco.rs): main, step by step.     *)
(***************************************************************************)
\* The values given for --archive_version; without the option it is "1".
ArchiveVersions == {"1", "2", "01"}
\* Where the archive goes: FILEPATH given or not.
Destinations == {"path", "stdout"}
\* The steps at which main can fail, and "none".
Categories == {"none", "version", "get_file_data", "create", "make"}

\* A main that exits with the same code when the archive cannot be built as
\* when the output file cannot be created.
main_exit_code_shared(category) ==
    IF category = "version" THEN -1
    ELSE IF category = "get_file_data" THEN -2
    ELSE IF category = "create" THEN -3
    ELSE IF category = "make" THEN -3
    ELSE 0

\* The argument of exit() at each place main calls it.
main_exit_code(category) ==
    IF category = "version" THEN -1
    ELSE IF category = "get_file_data" THEN -2
    ELSE IF category = "create" THEN -3
    ELSE IF category = "make" THEN -4
    ELSE 0

\* std::process::exit(code): the status the parent process sees is the low
\* 8 bits of code.
process_exit(code) == code % 256

\* The status of a process whose main thread panicked.
PanicStatus == 101

\* main has exited at the step category with the status status.
Exited(category, status) ==
    [cli EXCEPT !.pc = "exited", !.failed = category, !.status = status]

\* matches.value_of(...) and the check of archive_version.
MainArgs ==
    /\ cli.pc = "start"
    /\ \E archive_version \in ArchiveVersions :
          cli' = IF archive_version # "1"
                 THEN Exited("version", process_exit(main_exit_code("version")))
                 ELSE [cli EXCEPT !.pc = "get_file_data"]
    /\ UNCHANGED << file_data, make_result, archive, tamper, new_result, inner,
                    handle, views, strong, mapped, last_get, made_entries, advice,
                    last_read, aligned >>

\* filearco::get_file_data(dirpath): Ok with the list file_data, or Err.
MainGetFileData ==
    /\ cli.pc = "get_file_data"
    /\ \E ok \in BOOLEAN :
          cli' = IF ok
                 THEN [cli EXCEPT !.pc = "create", !.enumerated = TRUE]
                 ELSE [Exited("get_file_data",
                              process_exit(main_exit_code("get_file_data")))
                          EXCEPT !.enumerated = TRUE]
    /\ UNCHANGED << file_data, make_result, archive, tamper, new_result, inner,
                    handle, views, strong, mapped, last_get, made_entries, advice,
                    last_read, aligned >>

\* The output handle: File::create(file_path), which may fail, or stdout.
MainCreate ==
    /\ cli.pc = "create"
    /\ \E destination \in Destinations, ok \in BOOLEAN :
          cli' = IF destination = "stdout"
                 THEN [cli EXCEPT !.pc = "make"]
                 ELSE IF ok
                 THEN [cli EXCEPT !.pc = "make", !.created = TRUE]
                 ELSE Exited("create", process_exit(main_exit_code("create")))
    /\ UNCHANGED << file_data, make_result, archive, tamper, new_result, inner,
                    handle, views, strong, mapped, last_get, made_entries, advice,
                    last_read, aligned >>

\* filearco::v1::FileArco::make(file_data, handle), called by main.
MainMake == cli.pc = "make" /\ Make

\* The match on the result of make; a panic inside make ends the process
\* instead.
MainExit ==
    /\ cli.pc = "make"
    /\ make_result # "None"
    /\ cli' = IF make_result = "Ok"
              THEN Exited("none", process_exit(main_exit_code("none")))
              ELSE IF make_result = "Panic"
              THEN Exited("make", PanicStatus)
              ELSE Exited("make", process_exit(main_exit_code("make")))
    /\ UNCHANGED << file_data, make_result, archive, tamper, new_result, inner,
                    handle, views, strong, mapped, last_get, made_entries, advice,
                    last_read, aligned >>

NextMain == MainArgs \/ MainGetFileData \/ MainCreate \/ MainMake \/ MainExit
SpecMain == Init /\ [][NextMain]_vars

\* One byte of the contents region of the archive file is changed.
CorruptContent == CorruptByte /\ tamper'.region = "content"

\* The archive file is opened as make wrote it, or with one byte of its
\* contents changed.
NextContent ==
    Make \/ CorruptContent \/ New \/ Get \/ IsValid \/ DropFileRef \/ DropFileArco
SpecContent == Init /\ [][NextContent]_vars

(***************************************************************************)
(* Properties.                                                             *)
(***************************************************************************)
\* The names of the file list.
NamesOf(fd) == {fd[i].name : i \in 1..Len(fd)}

\* No two items of the list share a path.
UniquePaths(fd) == \A i, j \in 1..Len(fd) : fd[i].name = fd[j].name => i = j

\* The list is what file_data::get returns for the directory as it is when
\* make runs: unique paths, each with the length and checksum of its file.
Enumerated(fd) ==
    /\ UniquePaths(fd)
    /\ \A i \in 1..Len(fd) : fd[i] = FileDatum(fd[i].name, Disk(fd[i].name))

\* The header make wrote at the start of the archive file.
WrittenHeader ==
    deserialize_Header(Slice(archive, 0, Len(serialize_Header(Header_new(PageSize, 0, 0, 0)))))

\* C1 (as claimed): round trip.  For every enumerated list of source files,
\* make succeeds (when none of its reads and writes fails), new on the file it wrote succeeds, and for every path of
\* the list get returns a view whose bytes are the file's contents, whose
\* len() is the enumerated length and whose is_valid() is true.
C1_RoundTrip ==
    (Enumerated(file_data) /\ make_result \notin {"None", "Io"} /\ tamper.kind = "none") =>
        /\ make_result = "Ok"
        /\ new_result # "None" =>
              /\ new_result = "Ok"
              /\ \A i \in 1..Len(file_data) :
                    LET r == FileArco_get(inner, file_data[i].name)
                    IN  /\ r.some
                        /\ InsideMapping(archive, r.ref)
                        /\ FileRef_as_slice(archive, r.ref) = Disk(file_data[i].name)
                        /\ FileRef_len(r.ref) = file_data[i].length
                        /\ FileRef_is_valid(archive, r.ref)

\* C1 without its failing case: the round trip of every enumerated list for
\* which make returns Ok.
RoundTripWhenMade ==
    (Enumerated(file_data) /\ make_result = "Ok" /\ tamper.kind = "none"
        /\ new_result # "None") =>
        /\ new_result = "Ok"
        /\ \A i \in 1..Len(file_data) :
              LET r == FileArco_get(inner, file_data[i].name)
              IN  /\ r.some
                  /\ InsideMapping(archive, r.ref)
                  /\ FileRef_as_slice(archive, r.ref) = Disk(file_data[i].name)
                  /\ FileRef_len(r.ref) = file_data[i].length
                  /\ FileRef_is_valid(archive, r.ref)

\* C2 (as claimed): in every header make writes, file_offset is a multiple
\* of the page size and at least header bytes + 8 checksum bytes +
\* entries_length, so that the padding before the contents is never negative
\* (make does not stop at the subtraction).
C2_FileOffset ==
    (make_result \notin {"None", "Io"} /\ tamper.kind = "none") =>
        /\ WrittenHeader.file_offset % PageSize = 0
        /\ WrittenHeader.file_offset >=
               Len(serialize_Header(WrittenHeader)) + checksum_size
                   + WrittenHeader.entries_length
        /\ make_result # "Panic"

\* C3 (as claimed): determinism.  The bytes make wrote are the bytes every
\* run of make on the same list writes, whatever order the map of that run
\* iterates its keys in.
C3_Deterministic ==
    (Enumerated(file_data) /\ make_result = "Ok" /\ tamper.kind = "none") =>
        \A keys \in IterationOrders(NamesOf(file_data)) :
            FileArco_make(file_data, keys).out = archive

\* C8 (as claimed): a list in which two items share a path makes the build
\* fail with DuplicateEntry.
C8_DuplicateEntry ==
    (~UniquePaths(file_data) /\ make_result \notin {"None", "Io"}) =>
        make_result = "DuplicateEntry"

\* The first failing check of the load, in the order the specification gives
\* (1 size, 2 magic, 3 version, 4 header checksum, 5 file_length, 6 room
\* for the table, 7 table checksum, 8 table deserialization); "Ok" when no
\* check fails.
FirstFailingCheck(map) ==
    LET header_len == Len(serialize_Header(Header_new(PageSize, 0, 0, 0)))
        header == deserialize_Header(Slice(map, 0, header_len))
        table == Slice(map, header_len + checksum_size, header.entries_length)
    IN  IF Len(map) < header_len + checksum_size THEN "FileTooSmall"
        ELSE IF header.id # FILEARCO_ID THEN "NotArchive"
        ELSE IF header.version_number # VERSION_NUMBER THEN "NotV1Archive"
        ELSE IF checksum(Slice(map, 0, header_len))
                  # deserialize_u64(Slice(map, header_len, checksum_size))
             THEN "CorruptedHeader"
        ELSE IF Len(map) < header.file_length THEN "FileTruncated"
        ELSE IF Len(map) < header_len + checksum_size + header.entries_length
             THEN "FileTooSmall"
        ELSE IF checksum(table) # header.entries_checksum THEN "CorruptedEntriesTable"
        ELSE IF ~deserialize_Entries(table).ok THEN "CorruptedEntriesTable"
        ELSE "Ok"

\* C4 (as claimed): corruption detection.  After one byte of the archive
\* has been changed, new fails with CorruptedEntriesTable when the byte lies
\* in the serialized table, and with a header error when it lies in the
\* header or its checksum; it neither succeeds nor panics.  (The claim names
\* CorruptedHeader alone for the header; NotArchive and NotV1Archive, which
\* the load order puts before the header checksum, are accepted here, so
\* that only the table half of the claim is at stake.)
C4_CorruptionDetected ==
    (Enumerated(file_data) /\ tamper.kind = "byte" /\ new_result # "None") =>
        /\ tamper.region = "table" => new_result = "CorruptedEntriesTable"
        /\ tamper.region \in {"header", "header_checksum"} =>
              new_result \in {"CorruptedHeader", "NotArchive", "NotV1Archive"}

\* C5 (as claimed): truncation detection.  An archive cut to any length
\* below header.file_length makes new fail with FileTruncated.
C5_TruncationOriginal ==
    (tamper.kind = "truncate" /\ tamper.region # "beyond" /\ new_result # "None") =>
        new_result = "FileTruncated"

\* C5 (amended): an archive cut to a length below header.file_length makes
\* new fail: with FileTruncated when at least the encoded header and its
\* checksum (64 bytes) are left, with FileTooSmall when fewer bytes are
\* left, and with the I/O error of the mapping when no byte is left.
C5_Truncation ==
    (tamper.kind = "truncate" /\ tamper.region # "beyond" /\ new_result # "None") =>
        new_result =
            IF tamper.pos = 0 THEN "Io"
            ELSE IF tamper.pos < Len(serialize_Header(Header_new(PageSize, 0, 0, 0)))
                                    + checksum_size
                 THEN "FileTooSmall"
            ELSE "FileTruncated"

\* C5 witness: new has rejected, with FileTruncated, an archive cut inside
\* its contents.
C5_Witness ==
    /\ tamper.kind = "truncate"
    /\ tamper.region = "content"
    /\ new_result = "FileTruncated"

\* C6 (as claimed): the load reports the first failing check in the order
\* size, magic, version, header checksum, file_length, table checksum, table
\* deserialization; the table is not deserialized before its checksum has
\* been verified.
C6_ValidationOrder ==
    (new_result # "None" /\ Len(archive) > 0) =>
        new_result = FirstFailingCheck(archive)

\* C7 (as claimed): whatever the file holds, new returns a handle or an
\* error value; it never panics or aborts the process.
C7_NoPanic == new_result \notin {"Panic", "Crash"}

\* C9: the mapping is mapped exactly while a holder is alive: the FileArco
\* or a FileRef obtained from it.
C9_MappingLifetime == mapped <=> (handle \/ Len(views) > 0)

\* C9 witness: the FileArco has been dropped, a FileRef is still alive and
\* the file is still mapped.
C9_Witness == new_result = "Ok" /\ ~handle /\ Len(views) > 0 /\ mapped

\* C9, the other case: every holder has been dropped after a view was handed
\* out, and the mapping is gone.
C9_Released ==
    new_result = "Ok" /\ last_get.some /\ ~handle /\ Len(views) = 0 /\ ~mapped

\* C10 (as claimed): every view get has returned covers only bytes inside
\* the mapping: address + aligned_length does not pass its end.
C10_ViewInsideMapping ==
    \A i \in 1..Len(views) :
        views[i].ref.address + views[i].ref.aligned_length <= Len(archive)

\* The content region [offset, offset + aligned_length) of the entry of path
\* k in the table files, as a set of positions.
ContentRegion(files, k) ==
    files[k].offset .. (files[k].offset + files[k].aligned_length - 1)

\* C11: alignment invariant.  In the table make built, in the order keys in
\* which offsets were assigned: the first offset is 0, every offset is a
\* multiple of the page size, each next offset is the offset before it plus
\* the aligned length of the entry before it, the content regions of two
\* entries do not overlap, and together the regions are exactly the
\* positions below the total aligned length.
C11_Alignment ==
    make_result # "None" =>
        LET files == made_entries.files
            keys == made_entries.keys
        IN  /\ Len(keys) > 0 => files[keys[1]].offset = 0
            /\ \A i \in 1..Len(keys) : files[keys[i]].offset % PageSize = 0
            /\ \A i \in 1..(Len(keys) - 1) :
                  files[keys[i + 1]].offset =
                      files[keys[i]].offset + get_aligned_length(files[keys[i]].length)
            /\ \A i, j \in 1..Len(keys) :
                  i # j => ContentRegion(files, keys[i]) \cap ContentRegion(files, keys[j]) = {}
            /\ UNION {ContentRegion(files, keys[i]) : i \in 1..Len(keys)}
                  = 0..(total_aligned_length(files, keys) - 1)

\* C11 witness: make has built a table of two entries, the second of which
\* starts one page after the first.
C11_Witness ==
    /\ make_result = "Ok"
    /\ Len(made_entries.keys) = 2
    /\ made_entries.files[made_entries.keys[1]].length > 0
    /\ made_entries.files[made_entries.keys[2]].offset = PageSize

\* C12: get returns Some(view) exactly when the path asked for is a key of
\* the entries table, byte for byte, and None for every other path; get has
\* no other outcome.  Every view alive was handed out for a key.
C12_GetExactMatch ==
    /\ last_get # NoGet => (last_get.some <=> last_get.path \in DOMAIN inner.entries)
    /\ \A i \in 1..Len(views) : views[i].path \in DOMAIN inner.entries

\* C12 witness: an archive holding a.txt was asked for c.txt and get
\* returned None.
C12_Witness ==
    /\ new_result = "Ok"
    /\ NameA \in DOMAIN inner.entries
    /\ last_get = [path |-> NameC, some |-> FALSE]

\* C13: for every view, as_slice() is exactly length bytes, the exact length
\* of the view's entry, which is also len(), and not aligned_length; its
\* first byte is the byte of the mapping at file_offset + entry.offset.
C13_AsSlice ==
    \A i \in 1..Len(views) :
        LET ref == views[i].ref
            entry == inner.entries[views[i].path]
        IN  /\ ref.address = inner.file_offset + entry.offset
            /\ FileRef_len(ref) = entry.length
            /\ InsideMapping(archive, ref) =>
                  LET sl == FileRef_as_slice(archive, ref)
                  IN  /\ Len(sl) = entry.length
                      /\ Len(sl) = FileRef_len(ref)
                      /\ \A j \in 1..Len(sl) :
                            sl[j] = archive[inner.file_offset + entry.offset + j]

\* C13 witness: a view of a.txt is alive whose length is 3 bytes and whose
\* aligned length is a page, and its bytes are "abc".
C13_Witness ==
    \E i \in 1..Len(views) :
        /\ views[i].path = NameA
        /\ views[i].ref.length = 3
        /\ views[i].ref.aligned_length = PageSize
        /\ InsideMapping(archive, views[i].ref)
        /\ FileRef_as_slice(archive, views[i].ref) = Disk(NameA)

\* C14: is_valid() is true exactly when the checksum of the view's length
\* content bytes, computed again, is the checksum stored in its entry.  No
\* other operation verifies contents: an archive with one changed content
\* byte, like an unchanged one, opens, get returns the view of every path of
\* the list, and is_valid is false exactly for the view whose bytes hold the
\* changed byte.
C14_IsValid ==
    /\ \A i \in 1..Len(views) :
          (views[i].valid # "unchecked" /\ InsideMapping(archive, views[i].ref)) =>
              (views[i].valid = "valid" <=>
                  views[i].ref.checksum
                      = checksum(Slice(archive, views[i].ref.address, views[i].ref.length)))
    /\ (/\ make_result = "Ok"
        /\ tamper.kind = "none" \/ (tamper.kind = "byte" /\ tamper.region = "content")
        /\ new_result # "None") =>
          /\ new_result = "Ok"
          /\ last_get # NoGet => (last_get.some <=> last_get.path \in NamesOf(file_data))
          /\ Enumerated(file_data) =>
                \A i \in 1..Len(views) :
                    views[i].valid # "unchecked" =>
                        (views[i].valid = "invalid" <=>
                            /\ tamper.kind = "byte"
                            /\ tamper.pos >= views[i].ref.address
                            /\ tamper.pos < views[i].ref.address + views[i].ref.length)

\* C14 witness: an archive with a changed byte inside the contents of a.txt
\* was opened, get returned the view of a.txt and is_valid returned false.
C14_Witness ==
    /\ tamper.kind = "byte"
    /\ tamper.region = "content"
    /\ new_result = "Ok"
    /\ \E i \in 1..Len(views) : views[i].path = NameA /\ views[i].valid = "invalid"

\* C15 (as claimed): when a read or a write fails during make, make returns
\* the I/O error and the bytes it has written are not a usable archive: new
\* rejects them.
C15_PartialRejected ==
    (Enumerated(file_data) /\ make_result = "Io" /\ new_result # "None") =>
        new_result # "Ok"

\* The statuses with which main can exit at the step category.
ExitStatuses(category) ==
    {process_exit(main_exit_code(category))}
        \cup (IF category = "make" THEN {PanicStatus} ELSE {})

\* C16: the command-line program exits with status 0 exactly when make
\* returned Ok; the status of a failure is not 0 and is not a status of any
\* other category of failure (version selector, enumeration, creation of the
\* output, build); and with a version selector other than "1" it exits
\* before anything is enumerated, created or written.
C16_ExitCodes ==
    cli.pc = "exited" =>
        /\ cli.status = 0 <=> (cli.failed = "none" /\ make_result = "Ok")
        /\ cli.failed = "make" <=> make_result \in {"Io", "Panic"}
        /\ cli.status \in ExitStatuses(cli.failed)
        /\ \A c \in Categories \ {cli.failed} : cli.status \notin ExitStatuses(c)
        /\ cli.failed = "version" =>
              /\ ~cli.enumerated
              /\ ~cli.created
              /\ make_result = "None"
              /\ archive = << >>

\* C16 witness: main has exited because make returned an I/O error, after
\* the directory was enumerated and the output file created.
C16_Witness ==
    /\ cli.pc = "exited"
    /\ cli.failed = "make"
    /\ cli.enumerated
    /\ cli.created
    /\ make_result = "Io"
    /\ cli.status = 252

\* C16, the other case: main has exited at the version check, with a status
\* that is not 0, and nothing else has happened.
C16_VersionRejected ==
    cli.pc = "exited" /\ cli.failed = "version" /\ cli.status = 255

\* Path p comes before path q in byte-lexicographic order.
PathLess(p, q) ==
    \/ /\ Len(p) < Len(q)
       /\ \A j \in 1..Len(p) : p[j] = q[j]
    \/ \E i \in 1..Len(p) :
          /\ i <= Len(q)
          /\ p[i] < q[i]
          /\ \A j \in 1..(i - 1) : p[j] = q[j]

\* The sum of aligned_length over the entries of files whose path is in S.
RECURSIVE AlignedSum(_, _)
AlignedSum(files, S) ==
    IF S = {} THEN 0
    ELSE LET k == CHOOSE x \in S : TRUE
         IN  files[k].aligned_length + AlignedSum(files, S \ {k})

\* C17 (as claimed): in the table make built, the offset of every entry is
\* the sum of the aligned lengths of the entries whose path is smaller in
\* byte-lexicographic order.
C17_SortedOffsets ==
    (Enumerated(file_data) /\ make_result # "None") =>
        \A k \in DOMAIN made_entries.files :
            made_entries.files[k].offset =
                AlignedSum(made_entries.files,
                           {x \in DOMAIN made_entries.files : PathLess(x, k)})

\* C18 (as claimed): writer layout.  A make whose reads and writes all
\* succeed emits the header, the checksum of the header bytes, the
\* serialized table and zero padding, so that exactly file_offset bytes come
\* before the contents; then, for every entry, the file's contents at
\* file_offset + entry.offset followed by aligned_length - length zero
\* bytes; and nothing else.
C18_WriterLayout ==
    (Enumerated(file_data) /\ make_result \in {"Ok", "Panic"} /\ tamper.kind = "none") =>
        LET files == made_entries.files
            keys == made_entries.keys
            header == WrittenHeader
            header_len == Len(serialize_Header(header))
            table_at == header_len + checksum_size
            table_end == table_at + header.entries_length
        IN  /\ make_result = "Ok"
            /\ deserialize_u64(Slice(archive, header_len, checksum_size))
                  = checksum(Slice(archive, 0, header_len))
            /\ Slice(archive, table_at, header.entries_length)
                  = serialize_Entries(files, keys)
            /\ table_end <= header.file_offset
            /\ Slice(archive, table_end, header.file_offset - table_end)
                  = Zeros(header.file_offset - table_end)
            /\ \A k \in DOMAIN files :
                  /\ Slice(archive, header.file_offset + files[k].offset, files[k].length)
                        = Disk(k)
                  /\ Slice(archive, header.file_offset + files[k].offset + files[k].length,
                            files[k].aligned_length - files[k].length)
                        = Zeros(files[k].aligned_length - files[k].length)
            /\ Len(archive) = header.file_offset + total_aligned_length(files, keys)

\* C18 without its failing case: the layout of every output of a make that
\* returned Ok for an enumerated list.
WriterLayoutWhenMade ==
    (Enumerated(file_data) /\ make_result = "Ok" /\ tamper.kind = "none") =>
        LET files == made_entries.files
            keys == made_entries.keys
            header == WrittenHeader
            table_end == Len(serialize_Header(header)) + checksum_size
                            + header.entries_length
        IN  /\ Slice(archive, Len(serialize_Header(header)) + checksum_size,
                     header.entries_length) = serialize_Entries(files, keys)
            /\ table_end <= header.file_offset
            /\ Slice(archive, table_end, header.file_offset - table_end)
                  = Zeros(header.file_offset - table_end)
            /\ \A k \in DOMAIN files :
                  /\ Slice(archive, header.file_offset + files[k].offset, files[k].length)
                        = Disk(k)
                  /\ Slice(archive, header.file_offset + files[k].offset + files[k].length,
                            files[k].aligned_length - files[k].length)
                        = Zeros(files[k].aligned_length - files[k].length)
            /\ Len(archive) = header.file_offset + total_aligned_length(files, keys)

\* The file map passes the checks of the load that come before the table is
\* read: size, magic, version, header checksum, file_length.
PassesHeaderChecks(map) ==
    LET header_len == Len(serialize_Header(Header_new(PageSize, 0, 0, 0)))
        header == deserialize_Header(Slice(map, 0, header_len))
    IN  /\ Len(map) >= header_len + checksum_size
        /\ header.id = FILEARCO_ID
        /\ header.version_number = VERSION_NUMBER
        /\ checksum(Slice(map, 0, header_len))
              = deserialize_u64(Slice(map, header_len, checksum_size))
        /\ Len(map) >= header.file_length

\* The entries table the header of map describes ends past the end of map.
TableOutsideMapping(map) ==
    LET header_len == Len(serialize_Header(Header_new(PageSize, 0, 0, 0)))
        header == deserialize_Header(Slice(map, 0, header_len))
    IN  Len(map) < header_len + checksum_size + header.entries_length

\* C19 (as claimed): new never reads table bytes outside the mapped file.
\* When the header passes the checks before the table and the mapped file
\* is too short to hold the table its header describes, new fails with
\* FileTooSmall.
C19_TableInsideMapping ==
    (/\ new_result # "None"
     /\ PassesHeaderChecks(archive)
     /\ TableOutsideMapping(archive)) =>
        new_result = "FileTooSmall"

\* The number of calls in the log calls that give the hint hint.
HintCount(calls, hint) == Cardinality({j \in 1..Len(calls) : calls[j].hint = hint})

\* C20 (as claimed): when the page size recorded in the header is the page
\* size of the system, get has issued a will-need hint over the aligned
\* region of every view it returned; when it is not, no hint is issued; and
\* every view destroyed after such a hint has issued exactly one don't-need
\* hint, so the don't-need hints are the will-need hints of the views no
\* longer alive.
C20_PrefetchHints ==
    (Enumerated(file_data) /\ tamper.kind = "none" /\ new_result = "Ok") =>
        /\ inner.page_size = PageSize =>
              \A i \in 1..Len(views) :
                  \E j \in 1..Len(advice) :
                      advice[j] = [hint |-> "WillNeed",
                                   address |-> views[i].ref.address,
                                   length |-> views[i].ref.aligned_length]
        /\ inner.page_size # PageSize => advice = << >>
        /\ HintCount(advice, "DontNeed") = HintCount(advice, "WillNeed") - Len(views)

\* C23 (as claimed): every make that returns Ok has written, for each entry,
\* exactly aligned_length bytes, whatever the size of the source file when
\* make reads it: the output is header.file_length bytes long, the content
\* region is as long as the total aligned length, and what make writes for
\* every entry starts at file_offset + entry.offset.
C23_ContentLength ==
    (make_result = "Ok" /\ tamper.kind = "none") =>
        LET files == made_entries.files
            keys == made_entries.keys
        IN  /\ Len(archive) = WrittenHeader.file_length
            /\ Len(write_files(files, keys, 1)) = total_aligned_length(files, keys)
            /\ \A i \in 1..Len(keys) :
                  Len(archive) - Len(write_files(files, keys, i))
                      = WrittenHeader.file_offset + files[keys[i]].offset

ViewsAgree ==
    \A i \in 1..Len(views) :
        LET r == FileArco_get(inner, views[i].path)
        IN  /\ r.some
            /\ r.ref = views[i].ref
            /\ \A j \in 1..Len(views) :
                  views[j].path = views[i].path => views[j].ref = views[i].ref

\* C21: the archive is immutable once new has built it.  No step (get,
\* as_slice, as_str, is_valid, as_raw, len, page_size, a drop of a view or
\* of the handle) changes file_offset, the page size or the entries table,
\* and every get for a path returns the view the earlier gets returned.
C21_Immutable ==
    /\ [](new_result = "Ok" => ViewsAgree)
    /\ [][new_result = "Ok" => inner' = inner]_vars

\* C21 witness: two views of a.txt are alive, one of them checked with
\* is_valid, as_str was called last, and the two views are equal.
C21_Witness ==
    /\ Len(views) = 2
    /\ views[1].path = NameA
    /\ views[2].path = NameA
    /\ views[1].ref = views[2].ref
    /\ views[1].valid = "valid"
    /\ last_read.method = "as_str"

====
